---- MODULE Spec2Model ----
(***************************************************************************)
(* Model of thumbnail_generator.py: the scanner, the cache layout, the     *)
(* staleness check, the two renderers seen through their try/except        *)
(* boundary, the per-file unit of work run by a thread pool, and main's    *)
(* aggregation loop and exit status.  The filesystem (source files, their  *)
(* modification times, the .thumbnails directories and their entries) and  *)
(* the clock are part of the state; the environment may touch or delete a  *)
(* source file at any moment.                                              *)
(***************************************************************************)
EXTENDS Integers, Sequences, FiniteSets, TLC

\* ------------------------------------------------------------------ bounds
MaxClock == 1      \* modification times range over 0..MaxClock
MaxRuns == 1       \* building runs of main in one behaviour of Spec (nothing is followed after the last)
MaxRunsTwice == 2  \* building runs of main in one behaviour of SpecTwice
MaxEnv == 1        \* environment changes (touch, delete) in one behaviour
MaxWorkers == 2    \* largest --workers value tried
MaxFiles == 2      \* most media files present in the tree
MaxCallers == 3    \* threads calling create_thumbnail_dirs at once in SpecDirs

\* -------------------------------------------------------- program constants
IMAGE_EXTENSIONS == {".jpg", ".jpeg", ".png", ".gif", ".bmp", ".webp", ".tiff", ".tif"}
VIDEO_EXTENSIONS == {".mp4", ".avi", ".mkv", ".mov", ".wmv", ".flv", ".webm", ".m4v", ".mpeg", ".mpg"}
THUMBNAIL_SIZES == [normal |-> 128, large |-> 256]
\* iteration order of the dict THUMBNAIL_SIZES
SizeNames == <<"normal", "large">>
DefaultExcludeDirs == {".thumbnails", "@eaDir", ".DS_Store", "Thumbs.db"}

\* ------------------------------------------------------- the tree scanned
\* Directories are sequences of names.  The static tree is
\*   root/            photo.jpg  alias.JPG -> photo.jpg  clip.mp4  notes.txt
\*   root/sub/        far.jpg -> ../photo.jpg
\*   root/@eaDir/     side.jpg
Root == <<"root">>
Sub == <<"root", "sub">>
EaDir == <<"root", "@eaDir">>
StaticDirs == {Root, Sub, EaDir}
\* os.walk lists the subdirectories of a directory in a fixed order
StaticChildren(d) == IF d = Root THEN <<Sub, EaDir>> ELSE << >>

Files == {"photo", "alias", "clip", "far", "side", "notes"}
\* listing order of the directory entries (os.scandir order, fixed for a tree)
FileOrder == <<"photo", "alias", "clip", "notes", "far", "side">>
FileDir == [photo |-> Root, alias |-> Root, clip |-> Root, notes |-> Root,
            far |-> Sub, side |-> EaDir]
FileName == [photo |-> <<"photo", ".jpg">>, alias |-> <<"alias", ".JPG">>,
             clip |-> <<"clip", ".mp4">>, notes |-> <<"notes", ".txt">>,
             far |-> <<"far", ".jpg">>, side |-> <<"side", ".jpg">>]
\* a symbolic link names the regular file it points to; a regular file names itself
LinkTarget == [photo |-> "photo", alias |-> "photo", clip |-> "clip",
               notes |-> "notes", far |-> "photo", side |-> "side"]
Regular == {f \in Files : LinkTarget[f] = f}

\* a path is a directory and a name (stem, suffix)
PathOf(f) == [dir |-> FileDir[f], name |-> FileName[f]]
\* Path.suffix and str.lower()
Suffix(p) == p.name[2]
Lower(s) == CASE s = ".JPG" -> ".jpg"
              [] s = ".MP4" -> ".mp4"
              [] s = ".PNG" -> ".png"
              [] OTHER -> s
\* Path.resolve(): symbolic links followed, whether or not the target exists
Resolve(f) == PathOf(LinkTarget[f])

Times == 0..MaxClock

\* ------------------------------------------------------------------- state
VARIABLES
    present,      \* directory entries (of Files) that exist
    mtime,        \* modification time of each regular file
    now,          \* the clock that stamps writes
    ffmpeg,       \* whether the external video tool is installed
    envN,         \* environment changes made so far
    dirs,         \* the .thumbnails directories that exist
    cache,        \* thumbnail entry at each cache path, or NoFile
    budget,       \* building runs this behaviour may hold
    runNo,        \* building runs of main started so far
    phase,        \* "idle" | "running" | "aborting" (main left the loop by an exception)
    args,         \* the arguments of the invocation in progress (or of the last one)
    media_files,  \* main's list of candidates
    queue,        \* submitted units no worker has picked up yet
    pc,           \* where each unit of work (process_file call) is
    vi,           \* index in SizeNames of the variant a unit is at
    thumbnail_filename, \* the file name a unit computed for its entries
    results,      \* a unit's list of (size_name, word) so far
    ret,          \* what a unit's future holds once it is done
    successful, failed, cached,  \* main's counters
    last,         \* how the last finished invocation ended
    cache0,       \* history: cache when the invocation in progress started
    dirs0,        \* history: dirs when the invocation in progress started
    written,      \* history: cache paths written during this invocation
    called,       \* history: the renderer calls of this invocation and how each ended
    obs,          \* history: what each staleness check of this invocation saw
    stable,       \* history: the files unchanged since the last normal run ended
    prev,         \* history: the normal run before the one in progress
    mk,           \* where each direct caller of create_thumbnail_dirs is (SpecDirs)
    env0          \* history: envN when the invocation in progress started

vars == <<present, mtime, now, ffmpeg, envN, dirs, cache, budget, runNo, phase, args,
          media_files, queue, pc, vi, thumbnail_filename, results, ret,
          successful, failed, cached, last, cache0, dirs0, written, called,
          obs, stable, prev, mk, env0>>


\* ----------------------------------------------------------- path hashing
\* a slip in line 37: the path is hashed as given, links not followed
get_file_uri_asgiven(f) == <<"file://", PathOf(f)>>

\* get_file_uri: "file://" followed by the resolved absolute path
get_file_uri(f) == <<"file://", Resolve(f)>>

\* hashlib.md5(...).hexdigest(): a fixed digest per input string, distinct
\* inputs of this tree having distinct digests
md5(uri) == CASE uri = <<"file://", PathOf("photo")>> -> "0f3a"
              [] uri = <<"file://", PathOf("clip")>> -> "7c21"
              [] uri = <<"file://", PathOf("notes")>> -> "b9e4"
              [] uri = <<"file://", PathOf("side")>> -> "d056"
              [] OTHER -> "ffff"

get_thumbnail_filename(f) == <<md5(get_file_uri(f)), ".png">>

\* --------------------------------------------------------------- the cache
ThumbnailBase(d) == d \o <<".thumbnails">>
SizeDir(d, size_name) == ThumbnailBase(d) \o <<size_name>>
SizeNameSet == {SizeNames[i] : i \in 1..Len(SizeNames)}

MediaDirs == {Root, Sub, EaDir}
Digests == {md5(get_file_uri(f)) : f \in Files}
CachePaths == {[dir |-> SizeDir(d, s), name |-> <<h, ".png">>] :
                  d \in MediaDirs, s \in SizeNameSet, h \in Digests}
NoFile == [mtime |-> -1, data |-> "none"]

\* create_thumbnail_dirs: mkdir(parents=True, exist_ok=True) of every size
\* directory; the directories that exist afterwards
create_thumbnail_dirs(directory, ds) ==
    ds \cup {ThumbnailBase(directory)}
       \cup {SizeDir(directory, s) : s \in SizeNameSet}

\* the dict create_thumbnail_dirs returns
thumbnail_dirs(directory) == [s \in SizeNameSet |-> SizeDir(directory, s)]

output_path(f, size_name) ==
    [dir |-> thumbnail_dirs(FileDir[f])[size_name], name |-> thumbnail_filename[f]]

\* Path.exists() and Path.stat() of a source path (both follow symbolic links)
SourceExists(f) == f \in present /\ LinkTarget[f] \in present
SourceMtime(f) == mtime[LinkTarget[f]]

\* a slip in line 127: ">=" for ">"
should_generate_thumbnail_ge(f, thumbnail_path, force) ==
    IF force THEN "True"
    ELSE IF cache[thumbnail_path] = NoFile THEN "True"
    ELSE IF ~SourceExists(f) THEN "FileNotFoundError"
    ELSE IF SourceMtime(f) >= cache[thumbnail_path].mtime THEN "True"
    ELSE "False"

\* a slip in lines 120-121: the force flag is not looked at
should_generate_thumbnail_noforce(f, thumbnail_path, force) ==
    IF cache[thumbnail_path] = NoFile THEN "True"
    ELSE IF ~SourceExists(f) THEN "FileNotFoundError"
    ELSE IF SourceMtime(f) > cache[thumbnail_path].mtime THEN "True"
    ELSE "False"

\* a slip in line 127: the comparison turned round
should_generate_thumbnail_reversed(f, thumbnail_path, force) ==
    IF force THEN "True"
    ELSE IF cache[thumbnail_path] = NoFile THEN "True"
    ELSE IF ~SourceExists(f) THEN "FileNotFoundError"
    ELSE IF SourceMtime(f) < cache[thumbnail_path].mtime THEN "True"
    ELSE "False"

\* should_generate_thumbnail: "True", "False", or the exception stat() raises
should_generate_thumbnail(f, thumbnail_path, force) ==
    IF force THEN "True"
    ELSE IF cache[thumbnail_path] = NoFile THEN "True"
    ELSE IF ~SourceExists(f) THEN "FileNotFoundError"
    ELSE IF SourceMtime(f) > cache[thumbnail_path].mtime THEN "True"
    ELSE "False"

\* ----------------------------------------------------------- the renderers
\* What can go wrong inside a renderer's try block.  "none": the body runs
\* to its return statement.  "nonzero": ffmpeg exits with a non-zero status
\* (no exception).  The other faults are the exception raised.
ImageFaults == {"none", "UnidentifiedImageError", "OSError", "FileNotFoundError"}
VideoFaults == {"none", "nonzero", "TimeoutExpired", "FileNotFoundError", "PermissionError"}
\* the classes that derive from Exception (all of the above do)
ExceptionClasses == {"UnidentifiedImageError", "OSError", "FileNotFoundError",
                     "TimeoutExpired", "PermissionError", "ValueError"}

Returned(b) == [value |-> b, raised |-> "none"]
Raised(e) == [value |-> FALSE, raised |-> e]

\* generate_image_thumbnail: try: open, flatten, thumbnail, save, return True
\*                           except Exception: log, return False
generate_image_thumbnail(fault) ==
    IF fault = "none" THEN Returned(TRUE)
    ELSE IF fault \in ExceptionClasses THEN Returned(FALSE)
    ELSE Raised(fault)

\* a slip in lines 113-115: no handler for the remaining exceptions
generate_video_thumbnail_nocatch(fault) ==
    IF fault \in {"none", "nonzero"} THEN Returned(fault = "none")
    ELSE IF fault = "TimeoutExpired" THEN Returned(FALSE)
    ELSE IF fault = "FileNotFoundError" THEN Returned(FALSE)
    ELSE Raised(fault)

\* generate_video_thumbnail: try: subprocess.run(...); return returncode == 0
\*   except TimeoutExpired / FileNotFoundError / Exception: log, return False
generate_video_thumbnail(fault) ==
    IF fault \in {"none", "nonzero"} THEN Returned(fault = "none")
    ELSE IF fault = "TimeoutExpired" THEN Returned(FALSE)
    ELSE IF fault = "FileNotFoundError" THEN Returned(FALSE)
    ELSE IF fault \in ExceptionClasses THEN Returned(FALSE)
    ELSE Raised(fault)

\* the extension process_file and find_media_files look at
Extension(f) == Lower(Suffix(PathOf(f)))
IsImage(f) == Extension(f) \in IMAGE_EXTENSIONS
IsVideo(f) == Extension(f) \in VIDEO_EXTENSIONS

\* the faults the environment can produce for a call on f: a missing source
\* cannot be decoded, a missing tool cannot be started
FaultsOf(f) ==
    IF IsImage(f)
    THEN IF SourceExists(f) THEN ImageFaults \ {"FileNotFoundError"}
         ELSE {"FileNotFoundError"}
    ELSE IF ~ffmpeg THEN {"FileNotFoundError"}
         ELSE IF SourceExists(f) THEN VideoFaults \ {"FileNotFoundError"}
         ELSE {"nonzero"}

\* ------------------------------------------------------------- the scanner
\* the subdirectories os.walk finds in d: the static ones, then .thumbnails
\* and its size directories when they exist
Children(d) ==
    StaticChildren(d)
      \o (IF ThumbnailBase(d) \in dirs THEN <<ThumbnailBase(d)>> ELSE << >>)
      \o (IF Len(d) > 1 /\ d[Len(d)] = ".thumbnails"
          THEN SelectSeq(<<d \o <<"normal">>, d \o <<"large">> >>, LAMBDA c : c \in dirs)
          ELSE << >>)

RECURSIVE SeqOfSet(_)
SeqOfSet(S) == IF S = {} THEN << >>
               ELSE LET x == CHOOSE y \in S : TRUE IN <<x>> \o SeqOfSet(S \ {x})

\* the files os.walk lists in d, as paths
FilesIn(d) ==
    LET src == SelectSeq(FileOrder, LAMBDA f : f \in present /\ FileDir[f] = d)
    IN [i \in 1..Len(src) |-> PathOf(src[i])]
         \o SeqOfSet({p \in CachePaths : p.dir = d /\ cache[p] # NoFile})

IsMediaPath(p) == LET extension == Lower(Suffix(p))
                  IN extension \in IMAGE_EXTENSIONS \/ extension \in VIDEO_EXTENSIONS

RECURSIVE Walk(_, _)
RECURSIVE WalkAll(_, _)
\* os.walk(top-down) from d, the excluded names pruned from the descent
Walk(d, exclude_dirs) ==
    SelectSeq(FilesIn(d), IsMediaPath)
      \o WalkAll(SelectSeq(Children(d), LAMBDA c : c[Len(c)] \notin exclude_dirs),
                 exclude_dirs)
WalkAll(ds, exclude_dirs) ==
    IF ds = << >> THEN << >>
    ELSE Walk(Head(ds), exclude_dirs) \o WalkAll(Tail(ds), exclude_dirs)

\* a slip in line 173: the excluded names are not removed from dirs
find_media_files_noprune(root_dir) == Walk(root_dir, {})

find_media_files(root_dir) == Walk(root_dir, DefaultExcludeDirs)

\* the unit of work of a candidate path
SourcePaths == {PathOf(f) : f \in Files}
FileOf(p) == CHOOSE f \in Files : PathOf(f) = p
Range(q) == {q[i] : i \in 1..Len(q)}

\* -------------------------------------------------------------------- main
\* values of the positional argument: three directories (one of them with
\* an excluded name), a path that does not exist, and the path of the
\* regular file notes.txt
Missing == <<"nowhere">>
NotADir == <<"root", "notes.txt">>
DirArgs == {Root, Sub, EaDir, Missing, NotADir}

PathExists(d) == d \in StaticDirs \/ d \in dirs \/ (d = NotADir /\ "notes" \in present)
PathIsDir(d) == d \in StaticDirs \/ d \in dirs

\* lines 216-222: the status main returns for a bad root, or -1 to go on
ValidateRoot(root_dir) ==
    IF ~PathExists(root_dir) THEN 1
    ELSE IF ~PathIsDir(root_dir) THEN 1
    ELSE -1

\* a slip in line 228: the flag is never honoured
IsDryRun_never(a) == FALSE

\* line 228: whether main stops after listing the candidates
IsDryRun(a) == a.dry_run

\* a slip in line 231: the number of candidates leaks into the status
DryRunStatus_count(found) == IF Len(found) = 0 THEN 0 ELSE 1

\* line 231: the status of a dry run, whatever was found
DryRunStatus(found) == 0

\* line 265
ExitStatus(n_failed) == IF n_failed = 0 THEN 0 ELSE 1

\* a slip in line 160: all() for any()
StatusOf_all(rs) == IF \A i \in 1..Len(rs) : rs[i][2] = "ok" THEN "success" ELSE "failed"

\* a repair of line 160 the code does not have: a cached variant counts
StatusOf_cached(rs) ==
    IF \E i \in 1..Len(rs) : rs[i][2] \in {"ok", "cached"} THEN "success" ELSE "failed"

\* line 160: any('ok' in r for r in results)
StatusOf(rs) == IF \E i \in 1..Len(rs) : rs[i][2] = "ok" THEN "success" ELSE "failed"

NoName == <<"", "">>
NoRet == [status |-> "none", details |-> << >>, exc |-> "none"]
NoLast == [kind |-> "none", dry_run |-> FALSE, returned |-> FALSE, code |-> 0,
           exc |-> "none", successful |-> 0, failed |-> 0, cached |-> 0, total |-> 0]
NoArgs == [directory |-> Root, force |-> FALSE, workers |-> 1, dry_run |-> FALSE]
NoPrev == [n |-> 0, force |-> FALSE, key |-> [f \in Files |-> NoName], units |-> {},
           ok |-> FALSE, quiet |-> FALSE]

\* the threads of SpecDirs and a thread that has made no call
Callers == 1..MaxCallers
NoCall == [pc |-> "idle", directory |-> Root, i |-> 1, exc |-> "none",
           start |-> {}, made |-> {}, raced |-> FALSE]

Media == {f \in Files : IsImage(f) \/ IsVideo(f)}
Candidates == {f \in Media : FileDir[f] # EaDir}

\* The persisted state an invocation starts from: no cache at all, or the
\* cache an earlier run left for the candidates P (the entries of the size
\* names in warm, written at time 0 into the layout of each parent)
WarmChoices == SUBSET SizeNameSet
WarmPaths(P, warm) ==
    {[dir |-> SizeDir(FileDir[f], s), name |-> get_thumbnail_filename(f)] :
        f \in P \cap Candidates, s \in warm}
WarmDirs(P, warm) ==
    IF warm = {} THEN {}
    ELSE UNION {create_thumbnail_dirs(FileDir[f], {}) : f \in P \cap Candidates}
WarmCache(P, warm) ==
    [p \in CachePaths |-> IF p \in WarmPaths(P, warm)
                           THEN [mtime |-> 0, data |-> "png"] ELSE NoFile]

Init ==
    /\ present \in {P \in SUBSET Files :
                      /\ {"notes", "side"} \subseteq P
                      /\ \A f \in P : LinkTarget[f] \in P
                      /\ Cardinality(P \cap Candidates) \in 1..MaxFiles}
    /\ mtime = [f \in Regular |-> 0]
    /\ now = 0
    /\ ffmpeg \in (IF "clip" \in present THEN BOOLEAN ELSE {TRUE})
    /\ envN = 0
    /\ \E warm \in WarmChoices :
          /\ dirs = WarmDirs(present, warm)
          /\ cache = WarmCache(present, warm)
    /\ budget = MaxRuns
    /\ runNo = 0
    /\ phase = "idle"
    /\ args = NoArgs
    /\ media_files = << >>
    /\ queue = << >>
    /\ pc = [f \in Files |-> "none"]
    /\ vi = [f \in Files |-> 1]
    /\ thumbnail_filename = [f \in Files |-> NoName]
    /\ results = [f \in Files |-> << >>]
    /\ ret = [f \in Files |-> NoRet]
    /\ successful = 0
    /\ failed = 0
    /\ cached = 0
    /\ last = NoLast
    /\ cache0 = cache
    /\ dirs0 = dirs
    /\ written = {}
    /\ called = {}
    /\ obs = {}
    /\ stable = {}
    /\ prev = NoPrev
    /\ mk = [w \in Callers |-> NoCall]
    /\ env0 = 0

Ended(kind, dry_run, returned, code, exc) ==
    [kind |-> kind, dry_run |-> dry_run, returned |-> returned, code |-> code,
     exc |-> exc, successful |-> 0, failed |-> 0, cached |-> 0, total |-> 0]

\* a fresh invocation has no units, no results and zeroed counters
FreshLocals ==
    /\ queue' = << >>
    /\ pc' = [f \in Files |-> "none"]
    /\ vi' = [f \in Files |-> 1]
    /\ thumbnail_filename' = [f \in Files |-> NoName]
    /\ results' = [f \in Files |-> << >>]
    /\ ret' = [f \in Files |-> NoRet]

\* main up to the submission of the units of work (lines 212-242)
Main(directory, force, workers, dry_run) ==
    LET a == [directory |-> directory, force |-> force, workers |-> workers,
              dry_run |-> dry_run]
        found == find_media_files(directory)
        units == {FileOf(p) : p \in Range(found) \cap SourcePaths}
    IN
    /\ phase = "idle"
    /\ runNo < budget
    /\ cache0' = cache
    /\ dirs0' = dirs
    /\ written' = {}
    /\ called' = {}
    /\ obs' = {}
    /\ successful' = 0
    /\ failed' = 0
    /\ cached' = 0
    /\ UNCHANGED <<present, mtime, now, ffmpeg, envN, dirs, cache, budget, prev, stable, mk>>
    /\ env0' = envN
    /\ IF ValidateRoot(directory) # -1
       THEN \* the root is missing or is no directory: return 1
            /\ last' = Ended("invalid", dry_run, TRUE, ValidateRoot(directory), "none")
            /\ media_files' = << >>
            /\ args' = NoArgs
            /\ FreshLocals
            /\ UNCHANGED <<runNo, phase>>
       ELSE IF IsDryRun(a)
       THEN \* print the candidates, return 0
            /\ last' = [Ended("dry", dry_run, TRUE, DryRunStatus(found), "none") EXCEPT !.total = Len(found)]
            /\ media_files' = found
            /\ args' = NoArgs
            /\ FreshLocals
            /\ UNCHANGED <<runNo, phase>>
       ELSE IF workers <= 0
       THEN \* ThreadPoolExecutor(max_workers=0) raises ValueError
            /\ last' = [Ended("normal", dry_run, FALSE, 1, "ValueError")
                           EXCEPT !.total = Len(found)]
            /\ media_files' = found
            /\ args' = NoArgs
            /\ FreshLocals
            /\ UNCHANGED <<runNo, phase>>
       ELSE \* submit one unit of work per candidate
            /\ runNo' = runNo + 1
            /\ args' = a
            /\ media_files' = found
            /\ phase' = "running"
            /\ queue' = SelectSeq(found, LAMBDA p : p \in SourcePaths)
            /\ pc' = [f \in Files |-> IF f \in units THEN "queued" ELSE "none"]
            /\ vi' = [f \in Files |-> 1]
            /\ thumbnail_filename' = [f \in Files |-> NoName]
            /\ results' = [f \in Files |-> << >>]
            /\ ret' = [f \in Files |-> NoRet]
            /\ last' = NoLast

\* ------------------------------------------------------- the unit of work
Running == {f \in Files : pc[f] \in {"check", "render"}}
Finished(f) == pc[f] \in {"returned", "consumed"}

\* the end of one pass of the loop over THUMBNAIL_SIZES, rs being the list
\* of results so far: the next size, or lines 160-161
NextSize(f, rs) ==
    /\ results' = [results EXCEPT ![f] = rs]
    /\ IF vi[f] < Len(SizeNames)
       THEN /\ vi' = [vi EXCEPT ![f] = vi[f] + 1]
            /\ pc' = [pc EXCEPT ![f] = "check"]
            /\ ret' = ret
       ELSE /\ vi' = vi
            /\ pc' = [pc EXCEPT ![f] = "returned"]
            /\ ret' = [ret EXCEPT ![f] =
                         [status |-> StatusOf(rs), details |-> rs, exc |-> "none"]]

\* the call raises: the exception is stored in the unit's future
Raise(f, e) ==
    /\ pc' = [pc EXCEPT ![f] = "returned"]
    /\ ret' = [ret EXCEPT ![f] = [status |-> "none", details |-> << >>, exc |-> e]]
    /\ UNCHANGED <<vi, results>>

\* a worker thread takes the next unit from the executor's queue and runs
\* process_file up to the loop (lines 135-142)
Begin(f) ==
    /\ phase \in {"running", "aborting"}
    /\ queue # << >>
    /\ PathOf(f) = Head(queue)
    /\ Cardinality(Running) < args.workers
    /\ queue' = Tail(queue)
    /\ IF ~IsImage(f) /\ ~IsVideo(f)
       THEN /\ pc' = [pc EXCEPT ![f] = "returned"]
            /\ ret' = [ret EXCEPT ![f] = [status |-> "skipped",
                                          details |-> <<"unsupported">>, exc |-> "none"]]
            /\ UNCHANGED <<dirs, thumbnail_filename, vi>>
       ELSE /\ dirs' = create_thumbnail_dirs(FileDir[f], dirs)
            /\ thumbnail_filename' = [thumbnail_filename EXCEPT ![f] = get_thumbnail_filename(f)]
            /\ pc' = [pc EXCEPT ![f] = "check"]
            /\ vi' = [vi EXCEPT ![f] = 1]
            /\ ret' = ret
    /\ UNCHANGED <<present, mtime, now, ffmpeg, envN, cache, budget, runNo, phase, args,
                   media_files, results, successful, failed, cached, last,
                   cache0, dirs0, written, called, obs, stable, prev, mk, env0>>

\* what a staleness check saw
Seen(f, size_name, thumbnail_path) ==
    [f |-> f, size |-> size_name, force |-> args.force,
     entry |-> cache[thumbnail_path] # NoFile,
     source |-> SourceExists(f),
     newer |-> SourceExists(f) /\ SourceMtime(f) > cache[thumbnail_path].mtime,
     answer |-> should_generate_thumbnail(f, thumbnail_path, args.force)]

\* lines 146-150: the staleness check of the current size
Check(f) ==
    LET size_name == SizeNames[vi[f]]
        path == output_path(f, size_name)
        answer == should_generate_thumbnail(f, path, args.force)
    IN
    /\ pc[f] = "check"
    /\ obs' = obs \cup {Seen(f, size_name, path)}
    /\ IF answer = "False"
       THEN NextSize(f, Append(results[f], <<size_name, "cached">>))
       ELSE IF answer = "True"
       THEN /\ pc' = [pc EXCEPT ![f] = "render"]
            /\ UNCHANGED <<vi, results, ret>>
       ELSE Raise(f, answer)
    /\ UNCHANGED <<present, mtime, now, ffmpeg, envN, dirs, cache, budget, runNo, phase, args,
                   media_files, queue, thumbnail_filename, successful, failed,
                   cached, last, cache0, dirs0, written, called, stable, prev, mk, env0>>

\* the entry a renderer call leaves at its output path
Output(path, fault) ==
    IF fault = "none" THEN [mtime |-> now, data |-> "png"] ELSE cache[path]

\* lines 152-158: the renderer call of the current size
Render(f, fault) ==
    LET size_name == SizeNames[vi[f]]
        path == output_path(f, size_name)
        r == IF Extension(f) \in IMAGE_EXTENSIONS
             THEN generate_image_thumbnail(fault)
             ELSE generate_video_thumbnail(fault)
        out == Output(path, fault)
    IN
    /\ pc[f] = "render"
    /\ fault \in FaultsOf(f)
    /\ called' = called \cup {[f |-> f, size |-> size_name, clean |-> fault = "none",
                               value |-> r.value, raised |-> r.raised]}
    /\ cache' = [cache EXCEPT ![path] = out]
    /\ written' = IF fault = "none" THEN written \cup {path} ELSE written
    /\ IF r.raised # "none"
       THEN Raise(f, r.raised)
       ELSE NextSize(f, Append(results[f],
                                <<size_name, IF r.value THEN "ok" ELSE "failed">>))
    /\ UNCHANGED <<present, mtime, now, ffmpeg, envN, dirs, budget, runNo, phase, args,
                   media_files, queue, thumbnail_filename, successful, failed,
                   cached, last, cache0, dirs0, obs, stable, prev, mk, env0>>

\* ------------------------------------------------- main's aggregation loop
\* a slip in lines 246-254: the counters updated without a lock by whoever
\* completes, so that an increment made while another unit is still running
\* can be lost
Collect_unsynchronised(f) ==
    /\ phase = "running"
    /\ pc[f] = "returned"
    /\ pc' = [pc EXCEPT ![f] = "consumed"]
    /\ IF ret[f].exc # "none"
       THEN /\ phase' = "aborting"
            /\ UNCHANGED <<successful, failed, cached>>
       ELSE /\ phase' = phase
            /\ \E lost \in (IF Running # {} THEN BOOLEAN ELSE {FALSE}) :
                  /\ successful' = IF ret[f].status = "success" /\ ~lost
                                   THEN successful + 1 ELSE successful
                  /\ failed' = IF ret[f].status = "failed" /\ ~lost
                               THEN failed + 1 ELSE failed
            /\ cached' = cached
    /\ UNCHANGED <<present, mtime, now, ffmpeg, envN, dirs, cache, budget, runNo, args,
                   media_files, queue, vi, thumbnail_filename, results, ret, last,
                   cache0, dirs0, written, called, obs, stable, prev, mk, env0>>

\* a slip in lines 247-255: the 'cached' test made before the status tests
Collect_cachedfirst(f) ==
    LET allcached == /\ ret[f].status \in {"success", "failed"}
                     /\ \A i \in 1..Len(ret[f].details) : ret[f].details[i][2] = "cached"
    IN
    /\ phase = "running"
    /\ pc[f] = "returned"
    /\ pc' = [pc EXCEPT ![f] = "consumed"]
    /\ IF ret[f].exc # "none"
       THEN /\ phase' = "aborting"
            /\ UNCHANGED <<successful, failed, cached>>
       ELSE /\ phase' = phase
            /\ cached' = IF allcached THEN cached + 1 ELSE cached
            /\ successful' = IF ~allcached /\ ret[f].status = "success"
                             THEN successful + 1 ELSE successful
            /\ failed' = IF ~allcached /\ ret[f].status = "failed"
                         THEN failed + 1 ELSE failed
    /\ UNCHANGED <<present, mtime, now, ffmpeg, envN, dirs, cache, budget, runNo, args,
                   media_files, queue, vi, thumbnail_filename, results, ret, last,
                   cache0, dirs0, written, called, obs, stable, prev, mk, env0>>

\* one pass of "for future in as_completed(futures)" (lines 244-255):
\* future.result() returns the unit's tuple or raises the unit's exception
Collect(f) ==
    /\ phase = "running"
    /\ pc[f] = "returned"
    /\ pc' = [pc EXCEPT ![f] = "consumed"]
    /\ IF ret[f].exc # "none"
       THEN /\ phase' = "aborting"
            /\ UNCHANGED <<successful, failed, cached>>
       ELSE /\ phase' = phase
            /\ successful' = IF ret[f].status = "success" THEN successful + 1 ELSE successful
            /\ failed' = IF ret[f].status = "failed" THEN failed + 1 ELSE failed
            /\ cached' = IF /\ ret[f].status \notin {"success", "failed"}
                            /\ \E i \in 1..Len(ret[f].details) : ret[f].details[i] = "cached"
                         THEN cached + 1 ELSE cached
    /\ UNCHANGED <<present, mtime, now, ffmpeg, envN, dirs, cache, budget, runNo, args,
                   media_files, queue, vi, thumbnail_filename, results, ret, last,
                   cache0, dirs0, written, called, obs, stable, prev, mk, env0>>

\* ok: every renderer call of the run returned True; quiet: the
\* environment changed nothing while the run lasted
ThisRun == [n |-> runNo, force |-> args.force, key |-> thumbnail_filename,
            units |-> {f \in Files : pc[f] # "none"},
            ok |-> \A c \in called : c.value,
            quiet |-> envN = env0]

\* every future was consumed: the executor shuts down, the summary is
\* logged and main returns (lines 257-265)
Finish ==
    /\ phase = "running"
    /\ \A f \in Files : pc[f] \in {"none", "consumed"}
    /\ phase' = "idle"
    /\ last' = [kind |-> "normal", dry_run |-> args.dry_run, returned |-> TRUE,
                code |-> ExitStatus(failed), exc |-> "none",
                successful |-> successful, failed |-> failed, cached |-> cached,
                total |-> Len(media_files)]
    /\ prev' = ThisRun
    /\ stable' = Files
    /\ UNCHANGED <<present, mtime, now, ffmpeg, envN, dirs, cache, budget, runNo, args,
                   media_files, queue, pc, vi, thumbnail_filename, results, ret,
                   successful, failed, cached, cache0, dirs0, written, called, obs, mk, env0>>

\* future.result() raised inside the with block: the executor's __exit__
\* waits for every submitted unit, then the exception leaves main and the
\* interpreter ends with a traceback and status 1
Abort ==
    /\ phase = "aborting"
    /\ queue = << >>
    /\ \A f \in Files : pc[f] \in {"none", "returned", "consumed"}
    /\ phase' = "idle"
    /\ last' = [kind |-> "normal", dry_run |-> args.dry_run, returned |-> FALSE,
                code |-> 1,
                exc |-> (CHOOSE e \in ExceptionClasses :
                            \E f \in Files : pc[f] = "consumed" /\ ret[f].exc = e),
                successful |-> successful, failed |-> failed, cached |-> cached,
                total |-> Len(media_files)]
    /\ prev' = ThisRun
    /\ stable' = Files
    /\ UNCHANGED <<present, mtime, now, ffmpeg, envN, dirs, cache, budget, runNo, args,
                   media_files, queue, pc, vi, thumbnail_filename, results, ret,
                   successful, failed, cached, cache0, dirs0, written, called, obs, mk, env0>>

\* --------------------------------------------------------- the environment
\* the environment is followed while an invocation can still observe it
Live == phase # "idle" \/ runNo < budget

Changed(g) == {f \in Files : LinkTarget[f] = g}

\* utime on a source file
Touch(g, t) ==
    /\ Live
    /\ envN < MaxEnv
    /\ g \in Regular \cap Candidates \cap present
    /\ t # mtime[g]
    /\ mtime' = [mtime EXCEPT ![g] = t]
    /\ envN' = envN + 1
    /\ stable' = stable \ Changed(g)
    /\ UNCHANGED <<present, now, ffmpeg, dirs, cache, budget, runNo, phase, args,
                   media_files, queue, pc, vi, thumbnail_filename, results, ret,
                   successful, failed, cached, last, cache0, dirs0, written,
                   called, obs, prev, mk, env0>>

\* a source file (or a link to one) is removed
Delete(f) ==
    /\ Live
    /\ envN < MaxEnv
    /\ f \in Candidates \cap present
    /\ present' = present \ {f}
    /\ envN' = envN + 1
    /\ stable' = stable \ (Changed(f) \cup {f})
    /\ UNCHANGED <<mtime, now, ffmpeg, dirs, cache, budget, runNo, phase, args,
                   media_files, queue, pc, vi, thumbnail_filename, results, ret,
                   successful, failed, cached, last, cache0, dirs0, written,
                   called, obs, prev, mk, env0>>

Tick ==
    /\ Live
    /\ now < MaxClock
    /\ now' = now + 1
    /\ UNCHANGED <<present, mtime, ffmpeg, envN, dirs, cache, budget, runNo, phase, args,
                   media_files, queue, pc, vi, thumbnail_filename, results, ret,
                   successful, failed, cached, last, cache0, dirs0, written,
                   called, obs, stable, prev, mk, env0>>

\* ------------------------------------------------------- the specification
Next ==
    \/ \E directory \in DirArgs, force \in BOOLEAN, workers \in 0..MaxWorkers,
          dry_run \in BOOLEAN : Main(directory, force, workers, dry_run)
    \/ \E f \in Files : Begin(f)
    \/ \E f \in Files : Check(f)
    \/ \E f \in Files, fault \in ImageFaults \cup VideoFaults : Render(f, fault)
    \/ \E f \in Files : Collect(f)
    \/ Finish
    \/ Abort
    \/ \E g \in Files, t \in Times : Touch(g, t)
    \/ \E f \in Files : Delete(f)
    \/ Tick

Spec == Init /\ [][Next]_vars

\* Two consecutive building runs without --force on the whole tree, from a
\* tree that has no cache yet.  The pool has MaxWorkers threads; the
\* schedules of a smaller pool are among its schedules.
InitTwice ==
    /\ present \in {P \in SUBSET Files :
                      /\ {"notes", "side"} \subseteq P
                      /\ \A f \in P : LinkTarget[f] \in P
                      /\ Cardinality(P \cap Candidates) \in 1..MaxFiles}
    /\ mtime = [f \in Regular |-> 0]
    /\ now = 0
    /\ ffmpeg \in (IF "clip" \in present THEN BOOLEAN ELSE {TRUE})
    /\ envN = 0
    /\ dirs = {}
    /\ cache = [p \in CachePaths |-> NoFile]
    /\ budget = MaxRunsTwice
    /\ runNo = 0
    /\ phase = "idle"
    /\ args = NoArgs
    /\ media_files = << >>
    /\ queue = << >>
    /\ pc = [f \in Files |-> "none"]
    /\ vi = [f \in Files |-> 1]
    /\ thumbnail_filename = [f \in Files |-> NoName]
    /\ results = [f \in Files |-> << >>]
    /\ ret = [f \in Files |-> NoRet]
    /\ successful = 0
    /\ failed = 0
    /\ cached = 0
    /\ last = NoLast
    /\ cache0 = cache
    /\ dirs0 = dirs
    /\ written = {}
    /\ called = {}
    /\ obs = {}
    /\ stable = {}
    /\ prev = NoPrev
    /\ mk = [w \in Callers |-> NoCall]
    /\ env0 = 0

NextTwice ==
    \/ Main(Root, FALSE, MaxWorkers, FALSE)
    \/ \E f \in Files : Begin(f)
    \/ \E f \in Files : Check(f)
    \/ \E f \in Files, fault \in ImageFaults \cup VideoFaults : Render(f, fault)
    \/ \E f \in Files : Collect(f)
    \/ Finish
    \/ Abort
    \/ \E g \in Files, t \in Times : Touch(g, t)
    \/ \E f \in Files : Delete(f)
    \/ Tick

SpecTwice == InitTwice /\ [][NextTwice]_vars

\* ------------------------------------------- process_file called directly
\* process_file is a function of any path: SpecUnit submits the calls
\* process_file(p, force) for a set F of one or two existing files, whatever
\* their extension (notes.txt, side.jpg under @eaDir), to a pool of
\* MaxWorkers threads and collects what they return.
Call(F, force) ==
    LET order == SelectSeq(FileOrder, LAMBDA f : f \in F)
        paths == [i \in 1..Len(order) |-> PathOf(order[i])]
    IN
    /\ phase = "idle"
    /\ runNo < budget
    /\ F \subseteq present /\ F # {} /\ Cardinality(F) <= MaxFiles
    /\ runNo' = runNo + 1
    /\ args' = [directory |-> Root, force |-> force, workers |-> MaxWorkers,
                dry_run |-> FALSE]
    /\ media_files' = paths
    /\ phase' = "running"
    /\ queue' = paths
    /\ pc' = [f \in Files |-> IF f \in F THEN "queued" ELSE "none"]
    /\ vi' = [f \in Files |-> 1]
    /\ thumbnail_filename' = [f \in Files |-> NoName]
    /\ results' = [f \in Files |-> << >>]
    /\ ret' = [f \in Files |-> NoRet]
    /\ last' = NoLast
    /\ cache0' = cache
    /\ dirs0' = dirs
    /\ written' = {}
    /\ called' = {}
    /\ obs' = {}
    /\ successful' = 0
    /\ failed' = 0
    /\ cached' = 0
    /\ UNCHANGED <<present, mtime, now, ffmpeg, envN, dirs, cache, budget, prev, stable, mk>>
    /\ env0' = envN

NextUnit ==
    \/ \E F \in SUBSET Files, force \in BOOLEAN : Call(F, force)
    \/ \E f \in Files : Begin(f)
    \/ \E f \in Files : Check(f)
    \/ \E f \in Files, fault \in ImageFaults \cup VideoFaults : Render(f, fault)
    \/ \E f \in Files : Collect(f)
    \/ Finish
    \/ Abort
    \/ \E g \in Files, t \in Times : Touch(g, t)
    \/ \E f \in Files : Delete(f)
    \/ Tick

SpecUnit == Init /\ [][NextUnit]_vars

\* ------------------------------------ create_thumbnail_dirs, step by step
\* Path.mkdir(parents=True, exist_ok=True) of line 56 is not one step: it is
\*     try: os.mkdir(self)
\*     except FileNotFoundError:
\*         if not parents: raise
\*         self.parent.mkdir(parents=True, exist_ok=True)
\*         self.mkdir(parents=False, exist_ok=exist_ok)
\*     except OSError:
\*         if not exist_ok or not self.is_dir(): raise
\* and other threads run between its system calls.  SpecDirs follows
\* MaxCallers threads through these steps, each calling
\* create_thumbnail_dirs once, from every state of the two layouts.
parents == TRUE

\* a slip in line 56: exist_ok left at its default
exist_ok_default == FALSE

exist_ok == TRUE

CallDirs == {Root, Sub}
Parent(path) == SubSeq(path, 1, Len(path) - 1)
DirExists(path, ds) == path \in StaticDirs \/ path \in ds

\* os.mkdir: one system call
os_mkdir(path, ds) ==
    IF DirExists(path, ds) THEN "FileExistsError"
    ELSE IF ~DirExists(Parent(path), ds) THEN "FileNotFoundError"
    ELSE "ok"

\* the layouts a tree can hold: a size directory implies its .thumbnails
Layouts(d) ==
    {{}} \cup {{ThumbnailBase(d)} \cup {SizeDir(d, s) : s \in S} : S \in SUBSET SizeNameSet}

InitDirs ==
    /\ present = {"photo", "far", "notes", "side"}
    /\ mtime = [f \in Regular |-> 0]
    /\ now = 0
    /\ ffmpeg = TRUE
    /\ envN = 0
    /\ \E lr \in Layouts(Root), ls \in Layouts(Sub) : dirs = lr \cup ls
    /\ cache = [p \in CachePaths |-> NoFile]
    /\ budget = 0
    /\ runNo = 0
    /\ phase = "idle"
    /\ args = NoArgs
    /\ media_files = << >>
    /\ queue = << >>
    /\ pc = [f \in Files |-> "none"]
    /\ vi = [f \in Files |-> 1]
    /\ thumbnail_filename = [f \in Files |-> NoName]
    /\ results = [f \in Files |-> << >>]
    /\ ret = [f \in Files |-> NoRet]
    /\ successful = 0
    /\ failed = 0
    /\ cached = 0
    /\ last = NoLast
    /\ cache0 = cache
    /\ dirs0 = dirs
    /\ written = {}
    /\ called = {}
    /\ obs = {}
    /\ stable = {}
    /\ prev = NoPrev
    /\ mk = [w \in Callers |-> NoCall]
    /\ env0 = 0

MkFrame ==
    UNCHANGED <<present, mtime, now, ffmpeg, envN, cache, budget, runNo, phase, args,
                media_files, queue, pc, vi, thumbnail_filename, results, ret,
                successful, failed, cached, last, cache0, dirs0, written, called,
                obs, stable, prev, env0>>

\* the size directory thread w is creating
MkSizeDir(w) == SizeDir(mk[w].directory, SizeNames[mk[w].i])

\* line 57 and the loop: the next size name, or line 59
MkAdvance(w, m) ==
    IF m.i < Len(SizeNames)
    THEN [m EXCEPT !.pc = "mkdir", !.i = m.i + 1]
    ELSE [m EXCEPT !.pc = "returned"]

\* thread w enters create_thumbnail_dirs(d) (lines 51-54)
MkCall(w, d) ==
    /\ mk[w].pc = "idle"
    /\ mk' = [mk EXCEPT ![w] = [NoCall EXCEPT !.pc = "mkdir", !.directory = d,
                                              !.start = dirs]]
    /\ dirs' = dirs
    /\ MkFrame

\* os.mkdir(size_dir), first attempt
MkDir(w) ==
    LET r == os_mkdir(MkSizeDir(w), dirs)
        m == mk[w]
    IN
    /\ m.pc = "mkdir"
    /\ IF r = "ok"
       THEN /\ dirs' = dirs \cup {MkSizeDir(w)}
            /\ mk' = [mk EXCEPT ![w] = MkAdvance(w, [m EXCEPT !.made = m.made \cup {MkSizeDir(w)}])]
       ELSE /\ dirs' = dirs
            /\ mk' = [mk EXCEPT ![w] =
                        IF r = "FileNotFoundError"
                        THEN IF parents THEN [m EXCEPT !.pc = "parent"]
                             ELSE [m EXCEPT !.pc = "raised", !.exc = r]
                        ELSE IF exist_ok THEN [m EXCEPT !.pc = "isdir", !.raced = TRUE]
                             ELSE [m EXCEPT !.pc = "raised", !.exc = r]]
    /\ MkFrame

\* self.parent.mkdir(parents=True, exist_ok=True): os.mkdir(thumbnail_base);
\* the directory argument itself exists (it holds the file being processed)
MkParent(w) ==
    LET base == ThumbnailBase(mk[w].directory)
        r == os_mkdir(base, dirs)
        m == mk[w]
    IN
    /\ m.pc = "parent"
    /\ IF r = "ok"
       THEN /\ dirs' = dirs \cup {base}
            /\ mk' = [mk EXCEPT ![w] = [m EXCEPT !.pc = "again", !.made = m.made \cup {base}]]
       ELSE /\ dirs' = dirs
            /\ mk' = [mk EXCEPT ![w] =
                        IF r = "FileExistsError"
                        THEN [m EXCEPT !.pc = "parent_isdir", !.raced = TRUE]
                        ELSE [m EXCEPT !.pc = "raised", !.exc = r]]
    /\ MkFrame

\* the parent's "if not exist_ok or not self.is_dir(): raise", exist_ok=True
MkParentIsDir(w) ==
    LET m == mk[w] IN
    /\ m.pc = "parent_isdir"
    /\ mk' = [mk EXCEPT ![w] =
                IF DirExists(ThumbnailBase(m.directory), dirs)
                THEN [m EXCEPT !.pc = "again"]
                ELSE [m EXCEPT !.pc = "raised", !.exc = "FileExistsError"]]
    /\ dirs' = dirs
    /\ MkFrame

\* self.mkdir(parents=False, exist_ok=exist_ok): os.mkdir(size_dir) again
MkAgain(w) ==
    LET r == os_mkdir(MkSizeDir(w), dirs)
        m == mk[w]
    IN
    /\ m.pc = "again"
    /\ IF r = "ok"
       THEN /\ dirs' = dirs \cup {MkSizeDir(w)}
            /\ mk' = [mk EXCEPT ![w] = MkAdvance(w, [m EXCEPT !.made = m.made \cup {MkSizeDir(w)}])]
       ELSE /\ dirs' = dirs
            /\ mk' = [mk EXCEPT ![w] =
                        IF r = "FileExistsError" /\ exist_ok
                        THEN [m EXCEPT !.pc = "isdir", !.raced = TRUE]
                        ELSE [m EXCEPT !.pc = "raised", !.exc = r]]
    /\ MkFrame

\* "if not exist_ok or not self.is_dir(): raise" for the size directory
MkIsDir(w) ==
    LET m == mk[w] IN
    /\ m.pc = "isdir"
    /\ mk' = [mk EXCEPT ![w] =
                IF DirExists(MkSizeDir(w), dirs)
                THEN MkAdvance(w, m)
                ELSE [m EXCEPT !.pc = "raised", !.exc = "FileExistsError"]]
    /\ dirs' = dirs
    /\ MkFrame

NextDirs ==
    \/ \E w \in Callers, d \in CallDirs : MkCall(w, d)
    \/ \E w \in Callers : MkDir(w)
    \/ \E w \in Callers : MkParent(w)
    \/ \E w \in Callers : MkParentIsDir(w)
    \/ \E w \in Callers : MkAgain(w)
    \/ \E w \in Callers : MkIsDir(w)

SpecDirs == InitDirs /\ [][NextDirs]_vars

\* ==================================================================== claims
Sizes == SizeNameSet
WordOf(f, size_name) ==
    IF \E i \in 1..Len(results[f]) : results[f][i][1] = size_name
    THEN (CHOOSE r \in Range(results[f]) : r[1] = size_name)[2]
    ELSE "none"
CalledFor(f, size_name) == \E c \in called : c.f = f /\ c.size = size_name
\* the staleness condition of the specification, on the current filesystem
IsStale(f, path, force) ==
    \/ force
    \/ cache[path] = NoFile
    \/ (SourceExists(f) /\ SourceMtime(f) > cache[path].mtime)
\* f's unit of work takes its staleness-check step
CheckStep(f) == pc[f] = "check" /\ obs' # obs /\ (pc'[f] # "check" \/ vi'[f] # vi[f])

\* f's unit has finished in the second of two runs without --force, f was a
\* candidate of the first and has not changed since the first ended
SecondRunOf(f) ==
    /\ runNo = 2 /\ prev.n = 1
    /\ ~args.force /\ ~prev.force
    /\ f \in prev.units /\ pc[f] # "none"
    /\ f \in stable
    /\ Finished(f)

\* C1 as stated: the second run computes the same key for f, calls the
\* renderer for no variant of f and leaves every entry of f as it was.
C1_Original ==
    \A f \in Files :
       SecondRunOf(f) =>
          /\ thumbnail_filename[f] = prev.key[f]
          /\ \A s \in Sizes :
                /\ ~CalledFor(f, s)
                /\ cache[output_path(f, s)] = cache0[output_path(f, s)]
                /\ output_path(f, s) \notin written

\* C1 amended: the second run computes the same key for f, and for every
\* variant of f whose entry exists when the second run starts, with a
\* modification time not older than f's, it records "cached", does not call
\* the renderer and leaves that entry as it was.
C1_Idempotent ==
    \A f \in Files :
       SecondRunOf(f) =>
          /\ thumbnail_filename[f] = prev.key[f]
          /\ \A s \in Sizes :
                (/\ SourceExists(f)
                 /\ cache0[output_path(f, s)] # NoFile
                 /\ SourceMtime(f) <= cache0[output_path(f, s)].mtime)
                => /\ WordOf(f, s) = "cached"
                   /\ ~CalledFor(f, s)
                   /\ cache[output_path(f, s)] = cache0[output_path(f, s)]
                   /\ output_path(f, s) \notin written

\* a second run found both entries the first run wrote for an unchanged
\* file and left them alone
C1_Witness ==
    \E f \in Files :
       /\ SecondRunOf(f) /\ SourceExists(f)
       /\ \A s \in Sizes :
             /\ cache0[output_path(f, s)] # NoFile
             /\ WordOf(f, s) = "cached"
             /\ cache[output_path(f, s)] = cache0[output_path(f, s)]

\* C2: in every staleness-check step of a unit of work, the unit goes on to
\* the renderer call iff the force flag is set, or the entry does not exist,
\* or the source's modification time is strictly greater than the entry's;
\* and when the entry exists, the source is not newer and the run is not
\* forced, the step records "<size>:cached" and changes no cache entry.
C2_Staleness ==
    [][\A f \in Files :
         CheckStep(f) =>
           LET size_name == SizeNames[vi[f]]
               path == output_path(f, size_name)
           IN /\ (pc'[f] = "render") <=> IsStale(f, path, args.force)
              /\ (/\ ~args.force
                  /\ cache[path] # NoFile
                  /\ SourceExists(f)
                  /\ SourceMtime(f) <= cache[path].mtime)
                 => /\ results'[f] = Append(results[f], <<size_name, "cached">>)
                    /\ cache' = cache
                    /\ written' = written]_vars

\* a run that took both branches: one entry found fresh and left alone, and
\* one entry older than its source sent to the renderer
C2_Witness ==
    /\ \E o \in obs :
          /\ ~o.force /\ o.entry /\ o.source /\ ~o.newer
          /\ WordOf(o.f, o.size) = "cached"
          /\ ~CalledFor(o.f, o.size)
    /\ \E o \in obs : ~o.force /\ o.entry /\ o.newer /\ CalledFor(o.f, o.size)

\* C3 as stated: in a forced run every finished unit has both variants
\* rewritten and none recorded as cached.
C3_Original ==
    \A f \in Files :
       (args.force /\ Finished(f)) =>
          \A s \in Sizes : output_path(f, s) \in written /\ WordOf(f, s) # "cached"

\* C3 amended: in a forced run every finished unit has called the renderer
\* for both variants, whatever entries existed, has recorded no variant as
\* cached, and every variant whose render succeeded was rewritten.
C3_Force ==
    \A f \in Files :
       (args.force /\ Finished(f)) =>
          /\ ret[f].exc = "none"
          /\ \A s \in Sizes :
                /\ CalledFor(f, s)
                /\ WordOf(f, s) \in {"ok", "failed"}
                /\ WordOf(f, s) = "ok" =>
                      /\ output_path(f, s) \in written
                      /\ cache[output_path(f, s)] # NoFile

\* a forced run rewrote both entries of a file whose entries existed and
\* were not older than the source
C3_Witness ==
    \E f \in Files :
       /\ args.force /\ Finished(f) /\ SourceExists(f)
       /\ \A s \in Sizes :
             /\ cache0[output_path(f, s)] # NoFile
             /\ SourceMtime(f) <= cache0[output_path(f, s)].mtime
             /\ output_path(f, s) \in written

\* C4 as stated: an error raised inside a unit of work becomes that file's
\* outcome record and never leaves main's aggregation loop.
C4_Contained ==
    /\ phase # "aborting"
    /\ \A f \in Files :
          pc[f] = "consumed" => ret[f].status \in {"success", "failed", "skipped"}

\* C5 as stated: for each media file (resolved path) and each variant there
\* is at most one thumbnail entry on disk (here: after a run that started
\* with no cache at all).
EntriesOf(g, size_name) ==
    {p \in CachePaths : /\ cache[p] # NoFile
                        /\ p.name = <<md5(<<"file://", PathOf(g)>>), ".png">>
                        /\ p.dir[Len(p.dir)] = size_name}
C5_SingleEntry ==
    (\A p \in CachePaths : cache0[p] = NoFile) =>
       \A g \in Regular, s \in Sizes : Cardinality(EntriesOf(g, s)) <= 1

\* C6: an invocation with the dry-run flag never starts a unit of work,
\* makes no staleness check and no renderer call, and the .thumbnails
\* directories and cache entries are what they were when it started.
C6_DryRunFrame ==
    (args.dry_run \/ (last.kind # "none" /\ last.dry_run)) =>
       /\ dirs = dirs0
       /\ cache = cache0
       /\ obs = {} /\ called = {} /\ written = {}
       /\ \A f \in Files : pc[f] = "none"

\* a dry run that listed candidates in a tree without any .thumbnails
C6_Witness == last.kind = "dry" /\ last.dry_run /\ last.total > 0 /\ dirs = {}

\* C7 as stated: an invocation with the dry-run flag returns 0 whatever the
\* other arguments are.
C7_Original == (last.kind # "none" /\ last.dry_run) => (last.returned /\ last.code = 0)

\* C7 amended: an invocation with the dry-run flag on an existing directory
\* returns 0, whatever --force and --workers are.
C7_DryRunExit ==
    (last.kind \notin {"none", "invalid"} /\ last.dry_run) =>
       (last.returned /\ last.code = 0)

\* a dry run on a directory with candidates returned 0
C7_Witness == last.kind = "dry" /\ last.dry_run /\ last.total > 0 /\ last.code = 0

\* C8 as stated (for --workers >= 1): an invalid root returns 1 before any
\* scan; a building run returns 0 iff no outcome was "failed", 1 otherwise.
C8_ExitMapping ==
    /\ last.kind = "invalid" => (last.returned /\ last.code = 1 /\ last.total = 0)
    /\ (last.kind = "normal" /\ last.exc # "ValueError") =>
          /\ last.returned
          /\ last.code \in {0, 1}
          /\ last.code = 0 <=> last.failed = 0

\* C9: no renderer call raises; it returns True exactly when its body ran
\* to the end without a fault (for the video tool: exit status 0), and
\* False for every fault.
C9_RendererBoundary ==
    /\ \A c \in called : c.raised = "none" /\ (c.value <=> c.clean)
    /\ \A f \in Files : Finished(f) /\ ret[f].exc # "none" => ~CalledFor(f, SizeNames[vi[f]])

\* one run in which a renderer call failed and returned False and another
\* call succeeded
C9_Witness ==
    /\ \E c \in called : ~c.clean /\ ~c.value /\ WordOf(c.f, c.size) = "failed"
    /\ \E c \in called : c.clean /\ c.value /\ WordOf(c.f, c.size) = "ok"

\* C10 as stated: with the video tool missing, a finished run returned 1,
\* every video whose two entries were stale has both variants and its
\* outcome "failed", and every image that no renderer call failed for has
\* outcome "success" and both entries on disk.
RunOver == runNo > 0 /\ phase = "idle" /\ last.kind = "normal"
C10_Isolation ==
    (RunOver /\ ~ffmpeg /\ \E f \in Files : IsVideo(f) /\ pc[f] # "none") =>
       /\ last.code = 1
       /\ \A f \in Files :
             (/\ IsVideo(f) /\ pc[f] # "none"
              /\ \A s \in Sizes : \E o \in obs : o.f = f /\ o.size = s /\ o.answer = "True")
             => /\ \A s \in Sizes : WordOf(f, s) = "failed"
                /\ ret[f].status = "failed"
       /\ \A f \in Files :
             (/\ IsImage(f) /\ pc[f] # "none"
              /\ CalledFor(f, SizeNames[1])
              /\ \A c \in called : c.f = f => c.value)
             => /\ ret[f].status = "success"
                /\ \A s \in Sizes : cache[output_path(f, s)] # NoFile

\* the entries of directory d in the set ds of directories
ChildrenOf(d, ds) == {x \in ds : Len(x) = Len(d) + 1 /\ Parent(x) = d}
LayoutComplete(d, ds) == create_thumbnail_dirs(d, ds) \subseteq ds

\* C11: whatever the interleaving of the directory-creation steps of the
\* threads calling create_thumbnail_dirs, no call raises; no directory is
\* created by two calls; when a call for directory d has returned, d holds
\* .thumbnails, which holds exactly "normal" and "large" (the call's net
\* effect is the one of an undisturbed call); and a call made when the
\* layout already existed has created nothing.
C11_ConcurrentLayout ==
    /\ \A w \in Callers : mk[w].pc # "raised" /\ mk[w].exc = "none"
    /\ \A w, x \in Callers : w # x => mk[w].made \cap mk[x].made = {}
    /\ \A w \in Callers :
          mk[w].pc = "returned" =>
             LET d == mk[w].directory IN
             /\ create_thumbnail_dirs(d, mk[w].start) \subseteq dirs
             /\ ChildrenOf(d, dirs) = {ThumbnailBase(d)}
             /\ ChildrenOf(ThumbnailBase(d), dirs) = {SizeDir(d, s) : s \in Sizes}
             /\ LayoutComplete(d, mk[w].start) =>
                   /\ mk[w].made = {}
                   /\ \A x \in create_thumbnail_dirs(d, {}) : x \in dirs <=> x \in mk[w].start

\* every thread called for the same directory, which had no layout when
\* it was called; all have returned, at least two of them after losing a
\* race for a directory another thread created first
C11_Witness ==
    /\ \A w \in Callers : mk[w].pc = "returned" /\ mk[w].directory = Root
    /\ \A w \in Callers : mk[w].start \cap create_thumbnail_dirs(Root, {}) = {}
    /\ Cardinality({w \in Callers : mk[w].raced}) >= 2
    /\ \E w \in Callers : mk[w].made # {}

\* the directories main accepts as the root of a scan
ScanRoots == {d \in DirArgs : ValidateRoot(d) = -1}
IsPrefix(d, e) == Len(d) <= Len(e) /\ SubSeq(e, 1, Len(d)) = d
\* the names of the directories between d (excluded) and the file's directory e
NamesBelow(d, e) == {e[k] : k \in (Len(d) + 1)..Len(e)}
NamesOf(e) == {e[k] : k \in 1..Len(e)}

\* C12 as stated: no candidate of a run lies beneath a directory with an
\* excluded name.
C12_Original ==
    \A i \in 1..Len(media_files) :
       NamesOf(media_files[i].dir) \cap DefaultExcludeDirs = {}

\* C12 amended: a scan of root d yields only files under d, none of them
\* beneath a directory with an excluded name that lies below d; and when no
\* directory on the path of d itself has an excluded name, no thumbnail
\* entry of the cache, whichever run wrote it, is a candidate.
C12_Exclusion ==
    \A d \in ScanRoots :
       LET found == find_media_files(d) IN
       \A i \in 1..Len(found) :
          /\ IsPrefix(d, found[i].dir)
          /\ NamesBelow(d, found[i].dir) \cap DefaultExcludeDirs = {}
          /\ NamesOf(d) \cap DefaultExcludeDirs = {} =>
                /\ found[i] \notin CachePaths
                /\ found[i] \notin written

\* a run has written thumbnails (.png files) under root/.thumbnails, a
\* picture lies under root/@eaDir, and a scan of root yields candidates
C12_Witness ==
    /\ \E p \in written : p.dir = SizeDir(Root, "normal") /\ cache[p] # NoFile
    /\ "side" \in present
    /\ Len(find_media_files(Root)) > 0
    /\ IsMediaPath(CHOOSE p \in written : TRUE)

\* the file name the specification gives the entries of f: the digest of
\* "file://" followed by the canonical path of f, then ".png"
HashName(f) == <<md5(<<"file://", PathOf(LinkTarget[f])>>), ".png">>
EntryAt(d, f, size_name) == [dir |-> d \o <<".thumbnails", size_name>>, name |-> HashName(f)]
\* the renderer calls of this run that wrote their output
CleanCalls == {c \in called : c.clean}

\* C13 as stated: every entry a run writes for file f and variant s is at
\* <scanned directory>/.thumbnails/<s>/<hash of f>.png.
C13_Original ==
    /\ \A c \in CleanCalls : EntryAt(args.directory, c.f, c.size) \in written
    /\ written \subseteq {EntryAt(args.directory, c.f, c.size) : c \in CleanCalls}

\* C13 amended: every entry a run writes for file f and variant s is at
\* <parent directory of f>/.thumbnails/<s>/<hash of f>.png, the same file
\* name for both variants; the run writes nothing else.
C13_Layout ==
    /\ \A c \in CleanCalls :
          /\ EntryAt(FileDir[c.f], c.f, c.size) \in written
          /\ cache[EntryAt(FileDir[c.f], c.f, c.size)] # NoFile
    /\ written \subseteq {EntryAt(FileDir[c.f], c.f, c.size) : c \in CleanCalls}
    /\ \A f \in Files :
          (pc[f] \notin {"none", "queued"} /\ ret[f].status # "skipped") =>
             thumbnail_filename[f] = HashName(f)

\* a run on root wrote both entries of root/sub/far.jpg, a link to
\* root/photo.jpg, under root/sub/.thumbnails with the digest of photo.jpg
C13_Witness ==
    /\ args.directory = Root
    /\ \A s \in Sizes :
          /\ [f |-> "far", size |-> s, clean |-> TRUE, value |-> TRUE, raised |-> "none"] \in called
          /\ [dir |-> <<"root", "sub", ".thumbnails", s>>, name |-> <<"0f3a", ".png">>] \in written

\* a renderer call of this invocation for f returned True
RenderedOk(f) == \E c \in called : c.f = f /\ c.value
Supported(f) == Extension(f) \in IMAGE_EXTENSIONS \cup VIDEO_EXTENSIONS

\* C14: a call of process_file that has returned holds "success" when some
\* renderer call it made returned True, "failed" when none did (so with
\* one variant ok and the other failed it is "success", with every variant
\* cached it is "failed"), for a file with a supported extension; and it
\* holds "skipped" exactly for an extension in neither table.
C14_Outcome ==
    \A f \in Files :
       (Finished(f) /\ ret[f].exc = "none") =>
          /\ ret[f].status \in {"success", "failed", "skipped"}
          /\ ret[f].status = "skipped" <=> ~Supported(f)
          /\ Supported(f) =>
                /\ ret[f].status = "success" <=> RenderedOk(f)
                /\ ret[f].status = "failed" <=> ~RenderedOk(f)
                /\ \A s \in Sizes : WordOf(f, s) = "ok" <=>
                      (\E c \in called : c.f = f /\ c.size = s /\ c.value)
                /\ (\A s \in Sizes : WordOf(f, s) = "cached") => ret[f].status = "failed"

\* notes.txt was returned as skipped, and a file with one variant ok and
\* the other failed was returned as success
C14_Witness ==
    /\ Finished("notes") /\ ret["notes"].status = "skipped"
    /\ \E f \in Files :
          /\ Finished(f) /\ ret[f].status = "success"
          /\ \E s, t \in Sizes : WordOf(f, s) = "ok" /\ WordOf(f, t) = "failed"

\* the units of work of this run that have reached their loop, and the
\* entries such a unit writes when its renders succeed
Begun == {f \in Files : pc[f] \in {"check", "render", "returned", "consumed"}
                         /\ thumbnail_filename[f] # NoName}
OutPaths(f) == {output_path(f, s) : s \in Sizes}
Rendering(f) == pc[f] = "render"

\* C15 as stated: the sets of entries two distinct units of one run write
\* are disjoint, and no two renderer calls in progress at the same time
\* have the same output path.
C15_NonOverlapping ==
    \A f, g \in Begun :
       f # g =>
          /\ ~(/\ Rendering(f) /\ Rendering(g)
               /\ output_path(f, SizeNames[vi[f]]) = output_path(g, SizeNames[vi[g]]))
          /\ OutPaths(f) \cap OutPaths(g) = {}

Counters == <<successful, failed, cached>>
Total == successful + failed + cached
\* the step in which main's loop consumes the future of f
Consumes(f) ==
    /\ pc[f] = "returned" /\ pc'[f] = "consumed"
    /\ \A g \in Files \ {f} : pc'[g] = pc[g]
WithStatus(st) == {f \in Files : pc[f] = "consumed" /\ ret[f].status = st}

\* C16: the counters change only when main starts (to zero) and in the
\* step in which main's loop consumes one future, and then exactly one of
\* them grows by exactly one; every consumed future that holds an outcome
\* is counted once; and when a run completes, the counters are the numbers
\* of candidates whose outcome was success and failed, whatever the order
\* the units completed in, and successful + cached + failed = total.
C16_Aggregation ==
    [][/\ (Counters' # Counters) =>
             \/ (phase = "idle" /\ Counters' = <<0, 0, 0>>)
             \/ /\ phase = "running"
                /\ \E f \in Files : Consumes(f)
                /\ Total' = Total + 1
                /\ successful' >= successful /\ failed' >= failed /\ cached' >= cached
       /\ \A f \in Files : (Consumes(f) /\ ret[f].exc = "none") => Total' = Total + 1
       /\ (phase = "running" /\ phase' = "idle") =>
             /\ last'.returned
             /\ last'.successful = Cardinality(WithStatus("success"))
             /\ last'.failed = Cardinality(WithStatus("failed"))
             /\ last'.successful + last'.cached + last'.failed = last'.total
             /\ last'.total = Len(media_files)
             /\ Cardinality({f \in Files : pc[f] = "consumed"}) = Len(media_files)]_vars

\* a completed run of two units, one counted successful, one failed
C16_Witness ==
    /\ last.kind = "normal" /\ last.returned /\ phase = "idle"
    /\ last.total = 2 /\ last.successful = 1 /\ last.failed = 1
    /\ args.workers = 2

\* the units of work the run in progress (or the last one) submitted
Submitted == {f \in Files : pc[f] # "none"}
\* main's loop has logged the outcome of f's unit
Reported(f) == pc[f] = "consumed" /\ ret[f].exc = "none"

\* C17 as stated, in the form a finite run refutes: main never leaves its
\* loop before every unit is reported, and when an invocation that
\* submitted units is over, it has emitted the summary and returned its
\* status, and every submitted unit has completed and was reported.
C17_Completion ==
    /\ phase = "aborting" => \A f \in Submitted : Reported(f)
    /\ (phase = "idle" /\ last.kind = "normal" /\ last.exc # "ValueError") =>
          /\ last.returned
          /\ \A f \in Submitted : Reported(f)
          /\ Cardinality(Submitted) = last.total

\* main's loop is over for the second of two runs without --force, the
\* first of which made only successful renderer calls, and the tree has not
\* changed since the first run started
WarmRerun ==
    /\ runNo = 2 /\ prev.n = 1
    /\ ~args.force /\ ~prev.force
    /\ prev.ok /\ prev.quiet
    /\ prev.units \subseteq stable
    /\ Len(media_files) > 0
\* no source is dated later than an entry the first run left for it
NoneNewer ==
    \A f \in Submitted, s \in Sizes :
       cache0[EntryAt(FileDir[f], f, s)] # NoFile =>
          SourceMtime(f) <= cache0[EntryAt(FileDir[f], f, s)].mtime
\* what the claim says the second run reports
AllCachedFailed(l) ==
    /\ \A f \in Submitted :
          /\ \A s \in Sizes : WordOf(f, s) = "cached"
          /\ ret[f].status = "failed"
    /\ l.returned /\ l.code = 1
    /\ l.successful = 0 /\ l.failed = l.total /\ l.total = Len(media_files)
    /\ cache = cache0

\* C18 as stated: when the second run ends, every file has all variants
\* cached and outcome failed, and the run returns 1 with successful = 0 and
\* failed = total.
C18_Original ==
    [][(phase # "idle" /\ phase' = "idle" /\ WarmRerun) => AllCachedFailed(last')]_vars

\* C18 amended: the same, provided no source file carries a modification
\* time later than the one of an entry the first run wrote for it.
C18_WarmRerun ==
    [][(phase # "idle" /\ phase' = "idle" /\ WarmRerun /\ NoneNewer)
          => AllCachedFailed(last')]_vars

\* the second run has ended on a tree nothing ever changed in: two files,
\* all four variants cached, nothing written, status 1
C18_Witness ==
    /\ runNo = 2 /\ phase = "idle" /\ envN = 0
    /\ last.kind = "normal" /\ last.returned /\ last.code = 1
    /\ last.total = 2 /\ last.failed = 2 /\ last.successful = 0
    /\ \A f \in Submitted : \A s \in Sizes : WordOf(f, s) = "cached"
    /\ called = {} /\ written = {} /\ cache = cache0

\* the files whose unit main has consumed with every variant cached
AllCached == {f \in Files : /\ pc[f] = "consumed" /\ ret[f].exc = "none"
                            /\ Supported(f)
                            /\ \A s \in Sizes : WordOf(f, s) = "cached"}

\* C19: the counter cached is 0 in every state of every invocation and in
\* every summary; a file whose variants were all cached has been counted
\* under failed.
C19_CachedZero ==
    /\ cached = 0
    /\ last.cached = 0
    /\ \A f \in AllCached : ret[f].status = "failed"
    /\ failed >= Cardinality(AllCached)

\* a completed run in which a file had both variants cached: it is in the
\* summary under failed, and cached is 0
C19_Witness ==
    /\ last.kind = "normal" /\ last.returned /\ phase = "idle"
    /\ AllCached # {}
    /\ last.failed >= 1 /\ last.cached = 0
    /\ last.successful >= 1
====
